---- MODULE Spec2Model ----
(***************************************************************************)
(* Model of the WhatsApp ETL transformation core                           *)
(* (etl_pipeline/transform/transform_data.py, etl_pipeline/models.py) and  *)
(* of the pipeline that calls it (etl_pipeline/run_etl.py).                *)
(*                                                                         *)
(* A table (pandas DataFrame) is a sequence of rows and the set of its     *)
(* columns; a cell of a column the table lacks is null.  A derived table   *)
(* carries its column list.  One run of DataTransformer.transform_all is   *)
(* a sequence of steps, one per stage the method calls; a stage that       *)
(* raises ends the run.                                                    *)
(***************************************************************************)
EXTENDS Integers, Sequences, FiniteSets, TLC

(***************************************************************************)
(* Bounds of the exploration.                                              *)
(***************************************************************************)
MaxMsgs == 2
MaxStat == 2
MaxGroupMsgs == 4
MaxChecks == 6

(***************************************************************************)
(* Values.  NA is a null string cell (NaN/None); NaN a null numeric cell;  *)
(* NaT a null timestamp; Garbage and Garbage2 are two non-null cells whose  *)
(* texts are not dates.                                                    *)
(***************************************************************************)
NA == "<NA>"
NaN == -1
NaT == 0
Garbage == -2
Garbage2 == -3
Now == 99

IsTime(v) == v >= 1

\* pd.to_datetime(col, errors="coerce"): text that does not parse becomes NaT.
ToDatetime(v) == IF IsTime(v) THEN v ELSE NaT

\* str.strip() on the cell texts of the model.
Strip(s) ==
    CASE s = " " -> ""
      [] s = "hi " -> "hi"
      [] OTHER -> s

\* models.py: the status kinds and the directions.
STATUS_TYPES == <<"sent", "delivered", "read", "failed", "deleted">>
DIRECTIONS == {"inbound", "outbound"}

Range(s) == {s[i] : i \in 1..Len(s)}
Kinds == Range(STATUS_TYPES)

\* Sort order of the message_uuid and content keys of a groupby (sort=True).
UuidOrder == <<"a", "b">>
ContentOrder == <<" ", "hi", "hi ">>

\* The uuid carried by the i-th status event when it has one.
StatusUuidName == <<"s1", "s2", "s3", "s4">>

RECURSIVE SumSeq(_)
SumSeq(s) == IF s = <<>> THEN 0 ELSE Head(s) + SumSeq(Tail(s))

\* Indices of the rows of table t that satisfy P, and their number.
RowsWhere(t, P(_)) == {i \in 1..Len(t) : P(t[i])}
CountWhere(t, P(_)) == Cardinality(RowsWhere(t, P))

VARIABLES
    in_messages,    \* the message table handed to DataTransformer(...)
    in_statuses,    \* the status table handed to DataTransformer(...)
    msg_columns,    \* the columns of the message table
    stat_columns,   \* the columns of the status table
    messages_df,    \* self.messages_df
    statuses_df,    \* self.statuses_df
    pc,             \* the stage transform_all runs next
    stages,         \* the stages transform_all has completed, in order
    raised_in,      \* the stage that raised, "none" while none has
    unified,        \* unified_messages, the table transform_unified_view returned
    status_flat,    \* self.status_flat
    duplicates,     \* the list detect_duplicates returned
    dup_rows,       \* for each record of duplicates, the message row it was built from
    quality_report, \* the report data_quality_checks returned
    results,        \* the dictionary transform_all returned
    saved_locally,  \* the number of calls of save_results_locally
    uploaded,       \* whether run_etl_pipeline reached the upload of the tables
    read_failed,    \* the tabs _read_sheet_data could not read
    bigquery,       \* how the upload branch of run_etl_pipeline ended
    tables_to_upload,       \* the tables handed to load_table, by table name
    upload_success_count,   \* the number of load_table calls that returned True
    summary         \* the dictionary get_summary returned

vars == <<in_messages, in_statuses, msg_columns, stat_columns, messages_df,
          statuses_df, pc, stages, raised_in, unified, status_flat, duplicates,
          dup_rows, quality_report, results, saved_locally, uploaded, read_failed,
          bigquery, tables_to_upload, upload_success_count, summary>>

None == [none |-> TRUE]

(***************************************************************************)
(* Input tables.                                                           *)
(***************************************************************************)
\* models.py RawMessage and RawStatus: the columns whose cells the model
\* follows, and the other columns of the two sheets.
MessageCellColumns == {"id", "uuid", "content", "inserted_at", "direction"}
OtherMessageColumns ==
    {"message_type", "masked_addressees", "masked_author", "author_type",
     "external_id", "external_timestamp", "masked_from_addr", "is_deleted",
     "last_status", "last_status_timestamp", "rendered_content", "source_type",
     "updated_at"}
AllMessageColumns == MessageCellColumns \cup OtherMessageColumns

StatusCellColumns == {"message_uuid", "status", "timestamp", "uuid", "id"}
OtherStatusColumns == {"message_id", "number_id", "inserted_at", "updated_at"}
AllStatusColumns == StatusCellColumns \cup OtherStatusColumns

\* A message row; its id is its position in the sheet unless the cell is empty.
MkMessages(f) ==
    [i \in 1..Len(f) |->
        [id          |-> IF f[i].has_id THEN i ELSE NaN,
         uuid        |-> f[i].uuid,
         content     |-> f[i].content,
         inserted_at |-> f[i].inserted_at,
         direction   |-> f[i].direction]]

\* A status row; its id is its position, its uuid its own or an empty cell.
MkStatuses(f) ==
    [i \in 1..Len(f) |->
        [message_uuid |-> f[i].message_uuid,
         status       |-> f[i].status,
         timestamp    |-> f[i].timestamp,
         uuid         |-> IF f[i].has_uuid THEN StatusUuidName[i] ELSE NA,
         id           |-> i]]

\* The message rows as a sheet that has only the columns cols holds them.
WithMessageColumns(msgs, cols) ==
    [i \in 1..Len(msgs) |->
        [id          |-> IF "id" \in cols THEN msgs[i].id ELSE NaN,
         uuid        |-> IF "uuid" \in cols THEN msgs[i].uuid ELSE NA,
         content     |-> IF "content" \in cols THEN msgs[i].content ELSE NA,
         inserted_at |-> IF "inserted_at" \in cols THEN msgs[i].inserted_at ELSE NaT,
         direction   |-> IF "direction" \in cols THEN msgs[i].direction ELSE NA]]

\* The status rows as a sheet that has only the columns cols holds them.
WithStatusColumns(stats, cols) ==
    [i \in 1..Len(stats) |->
        [message_uuid |-> IF "message_uuid" \in cols THEN stats[i].message_uuid ELSE NA,
         status       |-> IF "status" \in cols THEN stats[i].status ELSE NA,
         timestamp    |-> IF "timestamp" \in cols THEN stats[i].timestamp ELSE NaT,
         uuid         |-> IF "uuid" \in cols THEN stats[i].uuid ELSE NA,
         id           |-> IF "id" \in cols THEN stats[i].id ELSE NaN]]

SeqsUpTo(D, n) == UNION {[1..k -> D] : k \in 0..n}

\* Messages that differ in their required fields.
RequiredShapes ==
    [has_id : BOOLEAN, uuid : {"a", NA}, content : {"hi"},
     inserted_at : {NaT, Garbage, 1}, direction : {"inbound"}]
\* Messages that differ in content and direction.
ContentShapes ==
    [has_id : {TRUE}, uuid : {"a"}, content : {NA, " ", "hi", "hi "},
     inserted_at : {1}, direction : {NA, "inbound", "sideways"}]
\* Well-formed messages.
PlainShapes ==
    [has_id : {TRUE}, uuid : {"a", "b"}, content : {"hi"},
     inserted_at : {1}, direction : {"inbound"}]

\* Messages of two contents that differ in whether their record can be built.
GroupShapes ==
    [has_id : {TRUE}, uuid : {"a"}, content : {"hi", "hi "},
     inserted_at : {1}, direction : {"inbound", "sideways"}]

\* Status events that differ in message and kind.
PivotShapes ==
    [message_uuid : {"a", "b", NA}, status : {"sent", "read", "unknown_kind"},
     timestamp : {1}, has_uuid : {TRUE}]
\* Status events of one message and kind that differ in time and uuid.
LatestShapes ==
    [message_uuid : {"a"}, status : {"sent"},
     timestamp : {NaT, Garbage, Garbage2, 1, 2}, has_uuid : BOOLEAN]
\* Status events of a sheet that may lack columns.
SchemaShapes ==
    [message_uuid : {"a", NA}, status : {"sent", "unknown_kind"},
     timestamp : {1}, has_uuid : {TRUE}]

OneSent == <<[message_uuid |-> "a", status |-> "sent", timestamp |-> 1, has_uuid |-> TRUE]>>
OnePlain ==
    <<[has_id |-> TRUE, uuid |-> "a", content |-> "hi", inserted_at |-> 1,
       direction |-> "inbound"]>>

\* The column sets of the sheets read: any of the followed columns may be
\* missing, and a sheet that was read has a column.
MessageColumnSets ==
    {c \cup o : c \in SUBSET MessageCellColumns, o \in {{}, OtherMessageColumns}} \ {{}}
StatusColumnSets ==
    {c \cup OtherStatusColumns : c \in SUBSET StatusCellColumns}

\* Message sheets that lack columns.
MessageSchemaTables ==
    UNION {
        {[messages |-> WithMessageColumns(MkMessages(f), cols), msg_columns |-> cols,
          statuses |-> MkStatuses(g), stat_columns |-> AllStatusColumns] :
            f \in SeqsUpTo(PlainShapes, MaxMsgs),
            g \in {<<>>, OneSent}} :
        cols \in MessageColumnSets}

\* Status sheets that lack columns.
StatusSchemaTables ==
    UNION {
        {[messages |-> MkMessages(f), msg_columns |-> AllMessageColumns,
          statuses |-> WithStatusColumns(MkStatuses(g), cols), stat_columns |-> cols] :
            f \in {<<>>, OnePlain},
            g \in SeqsUpTo(SchemaShapes, MaxStat)} :
        cols \in StatusColumnSets}

(***************************************************************************)
(* transform_all: the stages in the order the method calls them.           *)
(***************************************************************************)
\* A transform_all that unifies before it cleans.
StagesCleanLate == <<"Unifying", "Cleaning", "DuplicateDetection", "QualityChecking">>

TransformAllStages == <<"Cleaning", "Unifying", "DuplicateDetection", "QualityChecking">>

(***************************************************************************)
(* DataTransformer.__init__ followed by the call of transform_all.         *)
(***************************************************************************)
\* The two tabs of the spreadsheet.
Tabs == {"messages", "statuses"}

\* A read that lets the exception of read_csv through.
ReadSheetDataRaising(rows, cols, ok) ==
    [rows |-> IF ok THEN rows ELSE <<>>, columns |-> IF ok THEN cols ELSE {},
     raised |-> ~ok]

\* _read_sheet_data: the sheet as read_csv parsed it, or, when reading raised,
\* pd.DataFrame(): no rows and no columns. The exception is caught.
ReadSheetData(rows, cols, ok) ==
    [rows |-> IF ok THEN rows ELSE <<>>, columns |-> IF ok THEN cols ELSE {},
     raised |-> FALSE]

\* extract_all: (messages_df, statuses_df), the tabs in failed being the ones
\* that could not be read.
ExtractAll(m, mc, st, sc, failed) ==
    [messages |-> ReadSheetData(m, mc, "messages" \notin failed),
     statuses |-> ReadSheetData(st, sc, "statuses" \notin failed)]

\* messages_df, statuses_df = extractor.extract_all();
\* DataTransformer(messages_df, statuses_df): both tables are copied.
Load(m, mc, st, sc, failed) ==
    LET extracted == ExtractAll(m, mc, st, sc, failed)
        raised == extracted.messages.raised \/ extracted.statuses.raised
    IN  /\ read_failed = failed
        /\ in_messages = extracted.messages.rows
        /\ in_statuses = extracted.statuses.rows
        /\ msg_columns = extracted.messages.columns
        /\ stat_columns = extracted.statuses.columns
        /\ messages_df = extracted.messages.rows
        /\ statuses_df = extracted.statuses.rows
        /\ pc = IF raised THEN "Raised" ELSE Head(TransformAllStages)
        /\ raised_in = IF raised THEN "Extracting" ELSE "none"

Init ==
    /\ \/ \E f \in SeqsUpTo(RequiredShapes, MaxMsgs), g \in {<<>>, OneSent} :
            Load(MkMessages(f), AllMessageColumns, MkStatuses(g), AllStatusColumns, {})
       \/ \E f \in SeqsUpTo(ContentShapes, MaxMsgs), g \in {<<>>, OneSent} :
            Load(MkMessages(f), AllMessageColumns, MkStatuses(g), AllStatusColumns, {})
       \/ \E f \in SeqsUpTo(PlainShapes, MaxMsgs), g \in SeqsUpTo(PivotShapes, MaxStat) :
            Load(MkMessages(f), AllMessageColumns, MkStatuses(g), AllStatusColumns, {})
       \/ \E f \in SeqsUpTo(PlainShapes, 1), g \in SeqsUpTo(LatestShapes, MaxStat) :
            Load(MkMessages(f), AllMessageColumns, MkStatuses(g), AllStatusColumns, {})
       \/ \E f \in SeqsUpTo(GroupShapes, MaxGroupMsgs) :
            Load(MkMessages(f), AllMessageColumns, <<>>, AllStatusColumns, {})
       \/ \E inp \in MessageSchemaTables \cup StatusSchemaTables :
            Load(inp.messages, inp.msg_columns, inp.statuses, inp.stat_columns, {})
       \/ \E f \in SeqsUpTo(PlainShapes, MaxMsgs), g \in SeqsUpTo(SchemaShapes, MaxStat),
             failed \in (SUBSET Tabs) \ {{}} :
            Load(MkMessages(f), AllMessageColumns, MkStatuses(g), AllStatusColumns, failed)
    /\ stages = <<>>
    /\ unified = None
    /\ status_flat = None
    /\ duplicates = None
    /\ dup_rows = None
    /\ quality_report = None
    /\ results = None
    /\ saved_locally = 0
    /\ uploaded = FALSE
    /\ bigquery = "none"
    /\ tables_to_upload = None
    /\ upload_success_count = 0
    /\ summary = None

(***************************************************************************)
(* clean_data                                                              *)
(***************************************************************************)
\* messages_df.dropna(subset=["id", "inserted_at"])
DropnaMessages(msgs) ==
    SelectSeq(msgs, LAMBDA r : r.id # NaN /\ r.inserted_at # NaT)

\* A dropna that keeps the status rows without message_uuid.
DropnaStatusesKeepNullKey(stats) ==
    SelectSeq(stats, LAMBDA r : r.status # NA /\ r.timestamp # NaT)

\* statuses_df.dropna(subset=["message_uuid", "status", "timestamp"])
DropnaStatuses(stats) ==
    SelectSeq(stats, LAMBDA r : r.message_uuid # NA /\ r.status # NA /\ r.timestamp # NaT)

ConvertMessageDates(msgs) ==
    [i \in 1..Len(msgs) |-> [msgs[i] EXCEPT !.inserted_at = ToDatetime(@)]]

ConvertStatusDates(stats) ==
    [i \in 1..Len(stats) |-> [stats[i] EXCEPT !.timestamp = ToDatetime(@)]]

\* The rows are dropped only when the table has rows and an "id" column.
CleanMessages(msgs, cols) ==
    ConvertMessageDates(
        IF msgs # <<>> /\ "id" \in cols THEN DropnaMessages(msgs) ELSE msgs)

\* The rows are dropped only when the table has rows and the three columns.
CleanStatuses(stats, cols) ==
    ConvertStatusDates(
        IF stats # <<>> /\ {"message_uuid", "status", "timestamp"} \subseteq cols
        THEN DropnaStatuses(stats) ELSE stats)

\* dropna(subset=["id", "inserted_at"]) raises KeyError for a table that has
\* the "id" column and lacks "inserted_at".
CleanDataRaises(msgs, cols) ==
    msgs # <<>> /\ "id" \in cols /\ "inserted_at" \notin cols

(***************************************************************************)
(* transform_unified_view: the status aggregate                            *)
(***************************************************************************)
\* The column list of the aggregate built for an empty status table.
EmptyStatusWideColumns ==
    <<"message_uuid",
      "sent", "delivered", "read", "failed", "deleted",
      "sent_timestamp", "sent_inserted_at", "sent_updated_at", "sent_status_uuid",
      "sent_status_id", "sent_status_message_id", "sent_status_number_id",
      "delivered_timestamp", "delivered_inserted_at", "delivered_updated_at",
      "delivered_status_uuid", "delivered_status_id", "delivered_status_message_id",
      "delivered_status_number_id",
      "read_timestamp", "read_inserted_at", "read_updated_at", "read_status_uuid",
      "read_status_id", "read_status_message_id", "read_status_number_id",
      "failed_timestamp", "failed_inserted_at", "failed_updated_at",
      "failed_status_uuid", "failed_status_id", "failed_status_message_id",
      "failed_status_number_id",
      "deleted_timestamp", "deleted_inserted_at", "deleted_updated_at",
      "deleted_status_uuid", "deleted_status_id", "deleted_status_message_id",
      "deleted_status_number_id">>

pivot_statuses == <<"sent", "delivered", "read", "failed", "deleted">>

\* The status values in the order unstack() lays out its columns (sorted).
SortedKinds == <<"deleted", "delivered", "failed", "read", "sent">>

NullLatest == [timestamp |-> NaT, status_uuid |-> NA, status_id |-> NaN]

\* statuses_subset[statuses_subset["status"].isin(pivot_statuses)]
IsPivotRow(r) == r.status \in Range(pivot_statuses)

\* The keys of groupby(["message_uuid", "status"]) restricted to one level:
\* groupby drops null keys and sorts the rest.
CountKeys(stats) ==
    SelectSeq(UuidOrder,
        LAMBDA u : \E i \in 1..Len(stats) : IsPivotRow(stats[i]) /\ stats[i].message_uuid = u)

\* .size(): the number of rows of the group (message_uuid, status) = (u, k).
GroupSize(stats, u, k) ==
    CountWhere(stats, LAMBDA r : IsPivotRow(r) /\ r.message_uuid = u /\ r.status = k)

\* .unstack(fill_value=0), the missing kinds added as 0, cast to int64, reset_index().
CountsDf(stats) ==
    LET keys == CountKeys(stats)
        present == SelectSeq(SortedKinds,
                       LAMBDA k : \E i \in 1..Len(keys) : GroupSize(stats, keys[i], k) > 0)
        missing == SelectSeq(pivot_statuses,
                       LAMBDA k : \A i \in 1..Len(present) : present[i] # k)
    IN  [columns |-> <<"message_uuid">> \o present \o missing,
         rows    |-> [i \in 1..Len(keys) |->
                        [message_uuid |-> keys[i],
                         counts |-> [k \in Kinds |-> GroupSize(stats, keys[i], k)],
                         latest |-> [k \in Kinds |-> NullLatest]]]]

\* A sort that leaves the rows as they are.
SortOrdersUnsorted(stats) == {[i \in 1..Len(stats) |-> i]}

\* The orders df.sort_values("timestamp") can leave the rows in: ascending, NaT
\* last in their input order; the default sort kind is not stable, so rows of
\* equal timestamp come out in either order.
SortOrders(stats) ==
    {p \in [1..Len(stats) -> 1..Len(stats)] :
        /\ \A x, y \in 1..Len(stats) : x # y => p[x] # p[y]
        /\ \A x, y \in 1..Len(stats) : x < y =>
            LET a == stats[p[x]].timestamp
                b == stats[p[y]].timestamp
            IN  /\ (a = NaT => b = NaT)
                /\ (a # NaT /\ b # NaT => a <= b)
                /\ (a = NaT /\ b = NaT => p[x] < p[y])}

\* The last non-null value of a column, as GroupBy.last() computes it.
RECURSIVE LastNonNull(_, _)
LastNonNull(vals, null) ==
    IF vals = <<>> THEN null
    ELSE IF vals[Len(vals)] # null THEN vals[Len(vals)]
    ELSE LastNonNull(SubSeq(vals, 1, Len(vals) - 1), null)

\* df.sort_values("timestamp").groupby("message_uuid").last() for one group:
\* rows is the group's row indices in sorted order.
GroupLast(stats, rows) ==
    [timestamp   |-> LastNonNull([j \in 1..Len(rows) |-> stats[rows[j]].timestamp], NaT),
     status_uuid |-> LastNonNull([j \in 1..Len(rows) |-> stats[rows[j]].uuid], NA),
     status_id   |-> LastNonNull([j \in 1..Len(rows) |-> stats[rows[j]].id], NaN)]

\* get_latest_status(status_type, prefix) with the sort leaving the rows in order ord.
get_latest_status(stats, ord, status_type) ==
    LET df == SelectSeq(ord, LAMBDA i : stats[i].status = status_type)
        keys == SelectSeq(UuidOrder,
                    LAMBDA u : \E j \in 1..Len(df) : stats[df[j]].message_uuid = u)
    IN  IF df = <<>>
        THEN [columns |-> <<"message_uuid", status_type \o "_timestamp">>, rows |-> <<>>]
        ELSE [columns |-> <<"message_uuid", status_type \o "_timestamp",
                            status_type \o "_status_uuid", status_type \o "_status_id">>,
              rows |-> [n \in 1..Len(keys) |->
                          [message_uuid |-> keys[n]] @@
                          GroupLast(stats,
                              SelectSeq(df, LAMBDA i : stats[i].message_uuid = keys[n]))]]

\* DataFrame.merge(right, on="message_uuid", how="left"): every left row in
\* order, once per right row of the same key, or once with nulls when there is none.
RECURSIVE MergePairs(_, _, _)
MergePairs(i, left, right) ==
    IF i > Len(left) THEN <<>>
    ELSE LET hits == SelectSeq([j \in 1..Len(right) |-> j],
                         LAMBDA j : right[j].message_uuid = left[i].message_uuid)
         IN  (IF hits = <<>>
              THEN <<(<<i, 0>>)>>
              ELSE [n \in 1..Len(hits) |-> <<i, hits[n]>>])
             \o MergePairs(i + 1, left, right)

LeftMerge(left, right, Combine(_, _), NoMatch(_)) ==
    LET pairs == MergePairs(1, left, right)
    IN  [n \in 1..Len(pairs) |->
            IF pairs[n][2] = 0
            THEN NoMatch(left[pairs[n][1]])
            ELSE Combine(left[pairs[n][1]], right[pairs[n][2]])]

\* counts_df.merge(<kind>_flat, on="message_uuid", how="left")
MergeLatest(wide, flat, k) ==
    [columns |-> wide.columns \o Tail(flat.columns),
     rows    |-> LeftMerge(wide.rows, flat.rows,
                     LAMBDA l, r : [l EXCEPT !.latest[k] =
                                       [timestamp |-> r.timestamp,
                                        status_uuid |-> r.status_uuid,
                                        status_id |-> r.status_id]],
                     LAMBDA l : l)]

RECURSIVE MergeAllLatest(_, _, _, _)
MergeAllLatest(wide, stats, ord, n) ==
    IF n > Len(pivot_statuses) THEN wide
    ELSE MergeAllLatest(
             MergeLatest(wide, get_latest_status(stats, ord, pivot_statuses[n]),
                         pivot_statuses[n]),
             stats, ord, n + 1)

\* transform_unified_view raises KeyError on a non-empty status table that
\* lacks "status" or "message_uuid" (the filter and the groupby of the counts),
\* or that has an event of a known kind and lacks "timestamp", "uuid" or "id"
\* (the sort and the projection of get_latest_status).
UnifiedViewRaises(stats, cols) ==
    /\ stats # <<>>
    /\ \/ "status" \notin cols
       \/ "message_uuid" \notin cols
       \/ /\ \E i \in 1..Len(stats) : IsPivotRow(stats[i])
          /\ ~({"timestamp", "uuid", "id"} \subseteq cols)

\* The aggregate status_wide of transform_unified_view.
StatusWide(stats, ord) ==
    IF stats = <<>>
    THEN [columns |-> EmptyStatusWideColumns, rows |-> <<>>]
    ELSE MergeAllLatest(CountsDf(ConvertStatusDates(stats)), ConvertStatusDates(stats), ord, 1)

(***************************************************************************)
(* transform_unified_view: the message part and the join                   *)
(***************************************************************************)
desired_message_columns ==
    <<"message_id", "message_uuid", "message_type", "masked_addressees",
      "masked_author", "content", "author_type", "direction", "external_id",
      "external_timestamp", "masked_from_addr", "is_deleted", "rendered_content",
      "source_type", "message_inserted_at", "message_updated_at",
      "msg_last_status_raw", "msg_last_status_timestamp_raw">>

rename_map(c) ==
    CASE c = "id" -> "message_id"
      [] c = "uuid" -> "message_uuid"
      [] c = "inserted_at" -> "message_inserted_at"
      [] c = "updated_at" -> "message_updated_at"
      [] c = "last_status" -> "msg_last_status_raw"
      [] c = "last_status_timestamp" -> "msg_last_status_timestamp_raw"
      [] OTHER -> c

\* A projection that adds no column: the desired columns the table has.
MsgBaseColumnsNoAdd(cols) ==
    SelectSeq(desired_message_columns, LAMBDA c : c \in {rename_map(x) : x \in cols})

\* The columns of msg_base: the columns renamed, the desired columns the
\* table lacks added, and the result projected onto desired_message_columns.
MsgBaseColumns(cols) ==
    LET renamed == {rename_map(x) : x \in cols}
        added   == {c \in Range(desired_message_columns) : c \notin renamed}
    IN  SelectSeq(desired_message_columns, LAMBDA c : c \in renamed \cup added)

\* msg_base: the dates converted, the columns renamed, the missing ones added
\* as None, and the desired columns projected.
MsgBase(msgs, cols) ==
    LET renamed == {rename_map(x) : x \in cols}
    IN  [i \in 1..Len(msgs) |->
            [message_id   |-> IF "message_id" \in renamed THEN msgs[i].id ELSE NaN,
             message_uuid |-> IF "message_uuid" \in renamed THEN msgs[i].uuid ELSE NA,
             content      |-> IF "content" \in renamed THEN msgs[i].content ELSE NA,
             direction    |-> IF "direction" \in renamed THEN msgs[i].direction ELSE NA,
             message_inserted_at |->
                 IF "message_inserted_at" \in renamed
                 THEN ToDatetime(msgs[i].inserted_at) ELSE NaT]]

\* The columns added to the message table when there is no status data.
EmptyFillColumns ==
    <<"sent", "delivered", "read", "failed", "deleted",
      "sent_timestamp", "sent_inserted_at", "sent_updated_at", "sent_status_uuid",
      "sent_status_id", "sent_status_message_id", "sent_status_number_id",
      "delivered_timestamp", "delivered_inserted_at", "delivered_updated_at",
      "delivered_status_uuid", "delivered_status_id", "delivered_status_message_id",
      "delivered_status_number_id",
      "read_timestamp", "read_inserted_at", "read_updated_at", "read_status_uuid",
      "read_status_id", "read_status_message_id", "read_status_number_id",
      "failed_timestamp", "failed_inserted_at", "failed_updated_at",
      "failed_status_uuid", "failed_status_id", "failed_status_message_id",
      "failed_status_number_id",
      "deleted_timestamp", "deleted_inserted_at", "deleted_updated_at",
      "deleted_status_uuid", "deleted_status_id", "deleted_status_message_id",
      "deleted_status_number_id">>

\* A fill that sets every added column to None.
EmptyFillValueNone(col) == NaN

\* unified[col] = 0 for a count column, None for any other.
EmptyFillValue(col) ==
    IF col \in {"sent", "delivered", "read", "failed", "deleted"} THEN 0 ELSE NaN

\* The join done with how="inner": messages without a status row are lost.
JoinMessagesInner(base, wide) ==
    LET pairs == SelectSeq(MergePairs(1, base, wide), LAMBDA pr : pr[2] # 0)
    IN  [n \in 1..Len(pairs) |->
            base[pairs[n][1]] @@ [counts |-> wide[pairs[n][2]].counts,
                                  latest |-> wide[pairs[n][2]].latest]]

\* msg_base.merge(status_wide, left_on="message_uuid", right_on="message_uuid", how="left")
JoinMessages(base, wide) ==
    LeftMerge(base, wide,
        LAMBDA l, r : l @@ [counts |-> r.counts, latest |-> r.latest],
        LAMBDA l : l @@ [counts |-> [k \in Kinds |-> NaN],
                         latest |-> [k \in Kinds |-> NullLatest]])

\* The table transform_unified_view returns, given the aggregate status_wide.
Unified(msgs, cols, status_wide) ==
    IF status_wide.rows # <<>>
    THEN [columns |-> MsgBaseColumns(cols) \o Tail(status_wide.columns),
          rows    |-> JoinMessages(MsgBase(msgs, cols), status_wide.rows)]
    ELSE [columns |-> MsgBaseColumns(cols) \o EmptyFillColumns,
          rows    |-> [i \in 1..Len(msgs) |->
                          MsgBase(msgs, cols)[i] @@
                          [counts |-> [k \in Kinds |-> EmptyFillValue(k)],
                           latest |-> [k \in Kinds |-> NullLatest]]]]

(***************************************************************************)
(* detect_duplicates and DuplicateRecord                                   *)
(***************************************************************************)
\* str(value) of a timestamp.
Str(v) == [text |-> v]

\* A cleaning that keeps the text as it is when it is not blank.
StripOrNoneKeep(v) == IF Strip(v) # "" THEN v ELSE NA

\* The cleaning of a text cell in from_pandas_row: stripped, None when blank.
StripOrNone(v) == IF Strip(v) # "" THEN Strip(v) ELSE NA

\* DuplicateRecord.validate_direction
validate_direction(v) == ~(v # NA /\ v \notin DIRECTIONS)

\* DuplicateRecord.from_pandas_row: the record, or ok = FALSE when the
\* constructor raises (a direction the validator rejects, or None for the
\* required str fields uuid and direction).
from_pandas_row(row) ==
    LET data == [id          |-> IF row.id = NaN THEN 0 ELSE row.id,
                 uuid        |-> IF row.uuid = NA THEN "unknown-uuid" ELSE StripOrNone(row.uuid),
                 direction   |-> IF row.direction = NA THEN "unknown"
                                 ELSE StripOrNone(row.direction),
                 inserted_at |-> IF row.inserted_at = NaT THEN Str(Now)
                                 ELSE Str(row.inserted_at),
                 content     |-> IF row.content = NA THEN NA ELSE StripOrNone(row.content)]
    IN  [ok  |-> /\ data.uuid # NA
                 /\ data.direction # NA
                 /\ validate_direction(data.direction),
         rec |-> data]

\* A loop that stops at the first row whose record cannot be built.
RECURSIVE GroupRecordsAbort(_, _)
GroupRecordsAbort(msgs, group) ==
    IF group = <<>> \/ ~from_pandas_row(msgs[Head(group)]).ok THEN <<>>
    ELSE <<[row |-> Head(group), rec |-> from_pandas_row(msgs[Head(group)]).rec]>>
         \o GroupRecordsAbort(msgs, Tail(group))

\* The records of one content group, group being the indices of its rows in
\* row order: a record per row that can be built, a row whose record raises
\* being skipped.
GroupRecords(msgs, group) ==
    LET kept == SelectSeq(group, LAMBDA i : from_pandas_row(msgs[i]).ok)
    IN  [n \in 1..Len(kept) |-> [row |-> kept[n], rec |-> from_pandas_row(msgs[kept[n]]).rec]]

\* A group test that does not strip the content.
IsDuplicateGroupNoStrip(content, group) == Len(group) > 1 /\ content # ""

\* len(group) > 1 and content and str(content).strip()
IsDuplicateGroup(content, group) ==
    Len(group) > 1 /\ content # "" /\ Strip(content) # ""

RECURSIVE DuplicatesFrom(_, _)
DuplicatesFrom(n, msgs) ==
    IF n > Len(ContentOrder) THEN <<>>
    ELSE LET group == SelectSeq([i \in 1..Len(msgs) |-> i],
                          LAMBDA i : msgs[i].content = ContentOrder[n])
         IN  (IF IsDuplicateGroup(ContentOrder[n], group)
              THEN GroupRecords(msgs, group) ELSE <<>>)
             \o DuplicatesFrom(n + 1, msgs)

\* The records detect_duplicates appends, each with the row it was built
\* from: groupby("content") visits the non-null contents in sorted order.
DuplicateBuilds(msgs) == IF msgs # <<>> THEN DuplicatesFrom(1, msgs) ELSE <<>>

\* detect_duplicates: the list of records.
DetectDuplicatesOf(msgs) ==
    [n \in 1..Len(DuplicateBuilds(msgs)) |-> DuplicateBuilds(msgs)[n].rec]

\* groupby("content") raises KeyError for a table that lacks the column.
DetectDuplicatesRaises(msgs, cols) == msgs # <<>> /\ "content" \notin cols

(***************************************************************************)
(* data_quality_checks                                                     *)
(***************************************************************************)
\* A list of valid statuses that stops at the first two kinds.
valid_statuses_short == {"sent", "delivered"}

valid_statuses == {"sent", "delivered", "read", "failed", "deleted"}

\* self.messages_df[["id", "uuid", "inserted_at"]].isnull().any(axis=1).sum()
MissingRequired(msgs, cols) ==
    IF msgs # <<>> /\ {"id", "uuid", "inserted_at"} \subseteq cols
    THEN CountWhere(msgs, LAMBDA r : r.id = NaN \/ r.uuid = NA \/ r.inserted_at = NaT)
    ELSE 0

\* len(self.statuses_df[~self.statuses_df["status"].isin(valid_statuses)])
InvalidStatuses(stats, cols) ==
    IF stats # <<>> /\ "status" \in cols
    THEN CountWhere(stats, LAMBDA r : r.status \notin valid_statuses)
    ELSE 0

\* A severity that escalates only above one.
SeverityAboveOne(value) == IF value > 1 THEN "error" ELSE "info"

\* severity="error" if value > 0 else "info"
Severity(value) == IF value > 0 THEN "error" ELSE "info"

QualityReport(msgs, mcols, stats, scols) ==
    [total_messages          |-> Len(msgs),
     total_statuses          |-> Len(stats),
     messages_without_status |-> 0,
     invalid_statuses        |-> InvalidStatuses(stats, scols),
     future_timestamps       |-> 0,
     missing_required_fields |-> MissingRequired(msgs, mcols),
     duplicates_found        |-> 0,
     checks |->
        <<[check_name |-> "total_messages", check_type |-> "count",
           value |-> Len(msgs), severity |-> "info"],
          [check_name |-> "total_statuses", check_type |-> "count",
           value |-> Len(stats), severity |-> "info"],
          [check_name |-> "missing_required_fields", check_type |-> "count",
           value |-> MissingRequired(msgs, mcols),
           severity |-> Severity(MissingRequired(msgs, mcols))],
          [check_name |-> "invalid_statuses", check_type |-> "count",
           value |-> InvalidStatuses(stats, scols),
           severity |-> Severity(InvalidStatuses(stats, scols))]>>]

\* A back-fill that leaves the report as data_quality_checks built it.
BackFillNone(report, dups) == report

\* quality_report.duplicates_found = len(duplicates)
BackFill(report, dups) == [report EXCEPT !.duplicates_found = Len(dups)]

(***************************************************************************)
(* DataQualityReport.get_summary                                           *)
(***************************************************************************)
\* A summary whose score is not clamped at 0.
get_summary_unclamped(report) ==
    LET error_count   == CountWhere(report.checks, LAMBDA c : c.severity = "error")
        warning_count == CountWhere(report.checks, LAMBDA c : c.severity = "warning")
    IN  [total_messages     |-> report.total_messages,
         total_statuses     |-> report.total_statuses,
         data_quality_score |-> 100 - (error_count * 20) - (warning_count * 5),
         errors_found       |-> error_count,
         warnings_found     |-> warning_count]

get_summary(report) ==
    LET error_count   == CountWhere(report.checks, LAMBDA c : c.severity = "error")
        warning_count == CountWhere(report.checks, LAMBDA c : c.severity = "warning")
        score         == 100 - (error_count * 20) - (warning_count * 5)
    IN  [total_messages     |-> report.total_messages,
         total_statuses     |-> report.total_statuses,
         data_quality_score |-> IF score > 0 THEN score ELSE 0,
         errors_found       |-> error_count,
         warnings_found     |-> warning_count]

(***************************************************************************)
(* transform_all: one step per stage, in the order of TransformAllStages.  *)
(***************************************************************************)
StageAfter(s) ==
    LET i == CHOOSE n \in 1..Len(TransformAllStages) : TransformAllStages[n] = s
    IN  IF i < Len(TransformAllStages) THEN TransformAllStages[i + 1] ELSE "Assembling"

Ran(s) == \E i \in 1..Len(stages) : stages[i] = s

\* A transform_all that catches the exception of a stage and goes on.
AfterStageSwallow(s, raises) == StageAfter(s)

\* Where the run goes after stage s: transform_all catches nothing, so a
\* stage that raises ends the run.
AfterStage(s, raises) == IF raises THEN "Raised" ELSE StageAfter(s)

\* A constructor that keeps the caller's table itself: what the transformer
\* assigns to its table shows in the caller's.
CallersTableShared(callers, transformers) == transformers

\* __init__ keeps messages_df.copy() and statuses_df.copy(): the caller's
\* table is another object than the one the transformer cleans and converts.
CallersTable(callers, transformers) == callers

\* self.clean_data()
CleanData ==
    /\ pc = "Cleaning"
    /\ IF CleanDataRaises(messages_df, msg_columns)
       THEN /\ raised_in' = "Cleaning"
            /\ UNCHANGED <<messages_df, statuses_df, stages>>
       ELSE /\ messages_df' = CleanMessages(messages_df, msg_columns)
            /\ statuses_df' = CleanStatuses(statuses_df, stat_columns)
            /\ stages' = Append(stages, "Cleaning")
            /\ UNCHANGED raised_in
    /\ in_messages' = CallersTable(in_messages, messages_df')
    /\ in_statuses' = CallersTable(in_statuses, statuses_df')
    /\ pc' = AfterStage("Cleaning", CleanDataRaises(messages_df, msg_columns))
    /\ UNCHANGED <<msg_columns, stat_columns, unified,
                   status_flat, duplicates, dup_rows, quality_report, results,
                   saved_locally, uploaded, read_failed, bigquery,
                   tables_to_upload, upload_success_count, summary>>

\* unified_messages = self.transform_unified_view()
TransformUnifiedView ==
    /\ pc = "Unifying"
    /\ IF UnifiedViewRaises(statuses_df, stat_columns)
       THEN /\ raised_in' = "Unifying"
            /\ UNCHANGED <<unified, status_flat, stages>>
       ELSE /\ \E ord \in SortOrders(ConvertStatusDates(statuses_df)) :
                LET status_wide == StatusWide(statuses_df, ord)
                IN  /\ unified' = Unified(messages_df, msg_columns, status_wide)
                    /\ status_flat' = status_wide
            /\ stages' = Append(stages, "Unifying")
            /\ UNCHANGED raised_in
    /\ pc' = AfterStage("Unifying", UnifiedViewRaises(statuses_df, stat_columns))
    /\ UNCHANGED <<in_messages, in_statuses, msg_columns, stat_columns, messages_df,
                   statuses_df, duplicates, dup_rows, quality_report, results,
                   saved_locally, uploaded, read_failed, bigquery,
                   tables_to_upload, upload_success_count, summary>>

\* duplicates = self.detect_duplicates()
DetectDuplicates ==
    /\ pc = "DuplicateDetection"
    /\ IF DetectDuplicatesRaises(messages_df, msg_columns)
       THEN /\ raised_in' = "DuplicateDetection"
            /\ UNCHANGED <<duplicates, dup_rows, stages>>
       ELSE /\ duplicates' = DetectDuplicatesOf(messages_df)
            /\ dup_rows' = [n \in 1..Len(DuplicateBuilds(messages_df)) |->
                                DuplicateBuilds(messages_df)[n].row]
            /\ stages' = Append(stages, "DuplicateDetection")
            /\ UNCHANGED raised_in
    /\ pc' = AfterStage("DuplicateDetection",
                        DetectDuplicatesRaises(messages_df, msg_columns))
    /\ UNCHANGED <<in_messages, in_statuses, msg_columns, stat_columns, messages_df,
                   statuses_df, unified, status_flat, quality_report, results,
                   saved_locally, uploaded, read_failed, bigquery,
                   tables_to_upload, upload_success_count, summary>>

\* quality_report = self.data_quality_checks()
DataQualityChecks ==
    /\ pc = "QualityChecking"
    /\ quality_report' = QualityReport(messages_df, msg_columns, statuses_df, stat_columns)
    /\ pc' = AfterStage("QualityChecking", FALSE)
    /\ stages' = Append(stages, "QualityChecking")
    /\ UNCHANGED <<in_messages, in_statuses, msg_columns, stat_columns, messages_df,
                   statuses_df, raised_in, unified, status_flat, duplicates, dup_rows,
                   results, saved_locally, uploaded, read_failed, bigquery,
                   tables_to_upload, upload_success_count, summary>>

\* quality_report.duplicates_found = len(duplicates); results = {...}; return results
AssembleResults ==
    /\ pc = "Assembling"
    /\ quality_report' = BackFill(quality_report, duplicates)
    /\ results' = [unified_messages |-> unified,
                   duplicates       |-> duplicates,
                   quality_report   |-> quality_report']
    /\ pc' = "Done"
    /\ UNCHANGED <<in_messages, in_statuses, msg_columns, stat_columns, messages_df,
                   statuses_df, stages, raised_in, unified, status_flat, duplicates,
                   dup_rows, saved_locally, uploaded, read_failed, bigquery,
                   tables_to_upload, upload_success_count, summary>>

(***************************************************************************)
(* run_etl_pipeline around transform_all                                   *)
(***************************************************************************)
\* The tables a run may see fail to load.
MaxFailedLoads == 1

\* What happens after transform_all returned: the upload is disabled; the
\* BigQuery client is not available; ensure_dataset_exists raises; the tables
\* are handed to load_table and the SQL transforms raise; or the SQL
\* transforms complete.
PersistOutcomes ==
    {"disabled", "unavailable", "dataset_failed", "transform_failed", "completed"}

\* tables_to_upload, with message_status_flat added: transform_all has set
\* the transformer's status_flat.
TableNames ==
    <<"unified_messages", "duplicates", "messages_raw", "statuses_raw",
      "message_status_flat">>
TablesToUpload ==
    [unified_messages    |-> results.unified_messages,
     duplicates          |-> results.duplicates,
     messages_raw        |-> in_messages,
     statuses_raw        |-> in_statuses,
     message_status_flat |-> status_flat]

\* save_results_locally(results) is called when the upload is disabled and
\* in the handler of an exception of the upload branch.
SavesLocally(outcome) ==
    outcome \in {"disabled", "unavailable", "dataset_failed", "transform_failed"}

\* The rest of run_etl_pipeline. load_table catches the exception of a failed
\* load and returns False: the loop counts the loads that returned True and
\* goes on, so a failed load raises nothing.
PersistResults ==
    /\ pc = "Done"
    /\ \E outcome \in PersistOutcomes, failed_loads \in 0..MaxFailedLoads :
        LET prepared == outcome \notin {"disabled", "unavailable"}
            loaded   == outcome \in {"transform_failed", "completed"}
        IN  /\ loaded \/ failed_loads = 0
            /\ bigquery' = outcome
            /\ tables_to_upload' = IF prepared THEN TablesToUpload ELSE None
            /\ uploaded' = loaded
            /\ upload_success_count' =
                   IF loaded THEN Len(TableNames) - failed_loads ELSE 0
            /\ saved_locally' = IF SavesLocally(outcome) THEN saved_locally + 1
                                ELSE saved_locally
    /\ pc' = "Returned"
    /\ UNCHANGED <<in_messages, in_statuses, msg_columns, stat_columns, messages_df,
                   statuses_df, stages, raised_in, unified, status_flat, duplicates,
                   dup_rows, quality_report, results, read_failed, summary>>

\* except Exception as e: logger.error(...); raise
Reraise ==
    /\ pc = "Raised"
    /\ pc' = "Failed"
    /\ UNCHANGED <<in_messages, in_statuses, msg_columns, stat_columns, messages_df,
                   statuses_df, stages, raised_in, unified, status_flat, duplicates,
                   dup_rows, quality_report, results, saved_locally, uploaded, read_failed, bigquery,
                   tables_to_upload, upload_success_count, summary>>

Next ==
    \/ CleanData
    \/ TransformUnifiedView
    \/ DetectDuplicates
    \/ DataQualityChecks
    \/ AssembleResults
    \/ PersistResults
    \/ Reraise

Spec == Init /\ [][Next]_vars

(***************************************************************************)
(* sql_transform.create_message_status_flat                                *)
(***************************************************************************)
\* The fields of a status row the query keeps per kind, under their aliases.
SqlStatusFields ==
    <<"timestamp", "inserted_at", "updated_at", "status_uuid", "status_id",
      "status_message_id", "status_number_id">>

\* The SELECT list: message_uuid, the five COUNTIF columns, then for each
\* kind the seven ARRAY_AGG columns <kind>_<field>.
SqlFlatColumns ==
    [n \in 1..(6 + 5 * Len(SqlStatusFields)) |->
        IF n = 1 THEN "message_uuid"
        ELSE IF n <= 6 THEN STATUS_TYPES[n - 1]
        ELSE STATUS_TYPES[((n - 7) \div Len(SqlStatusFields)) + 1] \o "_"
                 \o SqlStatusFields[((n - 7) % Len(SqlStatusFields)) + 1]]

\* WHERE message_uuid IS NOT NULL GROUP BY message_uuid: one row per
\* message_uuid of the table, whatever the status values of its rows.
SqlGroupKeys(stats) ==
    SelectSeq(UuidOrder, LAMBDA u : \E i \in 1..Len(stats) : stats[i].message_uuid = u)

\* COUNTIF(status = 'k') within the group of u (a NULL status matches no k).
SqlCountIf(stats, u, k) ==
    CountWhere(stats, LAMBDA r : r.message_uuid = u /\ r.status = k)

\* The table the query creates from the status table stats: its columns, and
\* per row the key and the five counts.
SqlMessageStatusFlat(stats) ==
    LET keys == SqlGroupKeys(stats)
    IN  [columns |-> SqlFlatColumns,
         rows    |-> [i \in 1..Len(keys) |->
                        [message_uuid |-> keys[i],
                         counts |-> [k \in Kinds |-> SqlCountIf(stats, keys[i], k)]]]]

(***************************************************************************)
(* DataQualityReport.get_summary on reports of any list of checks          *)
(***************************************************************************)
\* models.py QualityCheckResult: the severities a check can carry.
Severities == {"info", "warning", "error", "critical"}

\* QualityCheckResult(check_name=..., severity=sev), the other fields at
\* their defaults.
MkCheck(sev) ==
    [check_name |-> "check", check_type |-> "count", value |-> 0, severity |-> sev]

\* DataQualityReport(checks=[...]), the counts at their default 0.
ReportOf(sevs) ==
    [total_messages          |-> 0,
     total_statuses          |-> 0,
     messages_without_status |-> 0,
     invalid_statuses        |-> 0,
     future_timestamps       |-> 0,
     missing_required_fields |-> 0,
     duplicates_found        |-> 0,
     checks |-> [i \in 1..Len(sevs) |-> MkCheck(sevs[i])]]

InitSummary ==
    /\ quality_report \in {ReportOf(sevs) : sevs \in SeqsUpTo(Severities, MaxChecks)}
    /\ summary = None
    /\ pc = "Summary"
    /\ in_messages = <<>>
    /\ in_statuses = <<>>
    /\ msg_columns = {}
    /\ stat_columns = {}
    /\ messages_df = <<>>
    /\ statuses_df = <<>>
    /\ stages = <<>>
    /\ raised_in = "none"
    /\ unified = None
    /\ status_flat = None
    /\ duplicates = None
    /\ dup_rows = None
    /\ results = None
    /\ saved_locally = 0
    /\ uploaded = FALSE
    /\ read_failed = {}
    /\ bigquery = "none"
    /\ tables_to_upload = None
    /\ upload_success_count = 0

\* report.checks.append(QualityCheckResult(...))
AppendCheck ==
    /\ pc = "Summary"
    /\ Len(quality_report.checks) < MaxChecks
    /\ \E sev \in Severities :
        quality_report' = [quality_report EXCEPT !.checks = Append(@, MkCheck(sev))]
    /\ UNCHANGED <<in_messages, in_statuses, msg_columns, stat_columns, messages_df,
                   statuses_df, pc, stages, raised_in, unified, status_flat, duplicates,
                   dup_rows, results, saved_locally, uploaded, read_failed, bigquery,
                   tables_to_upload, upload_success_count, summary>>

\* summary = report.get_summary()
GetSummary ==
    /\ pc = "Summary"
    /\ summary' = get_summary(quality_report)
    /\ UNCHANGED <<in_messages, in_statuses, msg_columns, stat_columns, messages_df,
                   statuses_df, pc, stages, raised_in, unified, status_flat, duplicates,
                   dup_rows, quality_report, results, saved_locally, uploaded,
                   read_failed, bigquery, tables_to_upload, upload_success_count>>

NextSummary ==
    \/ AppendCheck
    \/ GetSummary

SpecSummary == InitSummary /\ [][NextSummary]_vars

(***************************************************************************)
(* Properties                                                              *)
(***************************************************************************)
StatusMetaFields ==
    {"timestamp", "inserted_at", "updated_at", "status_uuid", "status_id",
     "status_message_id", "status_number_id"}

\* The 40 derived status columns: a count per kind and seven fields per kind.
DerivedColumns ==
    {"sent", "delivered", "read", "failed", "deleted"}
    \cup {k \o "_" \o f : k \in {"sent", "delivered", "read", "failed", "deleted"},
                          f \in StatusMetaFields}

\* The events of kind k of message u in the status table the stages read.
EventsOf(u, k) == RowsWhere(statuses_df, LAMBDA r : r.message_uuid = u /\ r.status = k)

\* C1: every unified row's count of kind k is the number of status events of
\* kind k of that message, 0 when there are none.
C1_CountsEqualEvents ==
    Ran("Unifying") =>
        \A i \in 1..Len(unified.rows) : \A k \in Kinds :
            unified.rows[i].counts[k] =
                Cardinality(EventsOf(unified.rows[i].message_uuid, k))

\* C2: the unified table always has the same columns, the 18 message columns
\* and the 40 derived status columns.
C2_FixedColumns ==
    Ran("Unifying") =>
        Range(unified.columns) = Range(desired_message_columns) \cup DerivedColumns

\* C3: the unified table has the rows of the message table, one for one and in
\* the same order, and the aggregate holds each message_uuid at most once.
C3_RowsPreserved ==
    Ran("Unifying") =>
        /\ Len(unified.rows) = Len(messages_df)
        /\ \A i \in 1..Len(unified.rows) :
            /\ unified.rows[i].message_id = messages_df[i].id
            /\ unified.rows[i].message_uuid = messages_df[i].uuid
        /\ \A i, j \in 1..Len(status_flat.rows) :
            i # j => status_flat.rows[i].message_uuid # status_flat.rows[j].message_uuid

\* A join in which one message has two status events and another has none.
C3_Witness ==
    /\ Ran("Unifying")
    /\ Len(messages_df) = 2
    /\ messages_df[1].uuid = "b"
    /\ messages_df[2].uuid = "a"
    /\ Cardinality(EventsOf("a", "sent")) = 2
    /\ Cardinality(EventsOf("b", "sent")) = 0
    /\ Len(unified.rows) = 2

\* C4: with an empty status table the unified table has a row per message, all
\* 40 derived columns, counts 0 and metadata null, and the aggregate is empty
\* with the 41-column schema.
C4_EmptyStatuses ==
    (Ran("Unifying") /\ statuses_df = <<>>) =>
        /\ Len(unified.rows) = Len(messages_df)
        /\ DerivedColumns \subseteq Range(unified.columns)
        /\ \A i \in 1..Len(unified.rows) : \A k \in Kinds :
            /\ unified.rows[i].counts[k] = 0
            /\ unified.rows[i].latest[k] = NullLatest
        /\ status_flat.rows = <<>>
        /\ Len(status_flat.columns) = 41
        /\ Range(status_flat.columns) = {"message_uuid"} \cup DerivedColumns

\* A message unified against a status table that cleaning left empty.
C4_Witness ==
    /\ Ran("Unifying")
    /\ statuses_df = <<>>
    /\ in_statuses # <<>>
    /\ Len(unified.rows) = 1

\* C5: the latest-event metadata of a message and kind all come from one
\* event, the one of that kind with the greatest timestamp.
C5_LatestFromOneEvent ==
    Ran("Unifying") =>
        \A n \in 1..Len(status_flat.rows) : \A k \in Kinds :
            LET row == status_flat.rows[n]
                events == EventsOf(row.message_uuid, k)
            IN  row.counts[k] > 0 =>
                    \E i \in events :
                        /\ \A j \in events :
                            statuses_df[j].timestamp <= statuses_df[i].timestamp
                        /\ row.latest[k] =
                            [timestamp   |-> statuses_df[i].timestamp,
                             status_uuid |-> statuses_df[i].uuid,
                             status_id   |-> statuses_df[i].id]

\* The message_uuids of the rows of the aggregate.
FlatUuids == {status_flat.rows[n].message_uuid : n \in 1..Len(status_flat.rows)}

FlatRowsDistinct ==
    \A i, j \in 1..Len(status_flat.rows) :
        i # j => status_flat.rows[i].message_uuid # status_flat.rows[j].message_uuid

FlatCountsNatural ==
    \A n \in 1..Len(status_flat.rows) : \A k \in Kinds :
        status_flat.rows[n].counts[k] \in Nat

\* C6: the aggregate of a non-empty status table has exactly one row for each
\* message_uuid of the status input, also for one whose events are all of an
\* unrecognized kind, and every count is an integer >= 0.
C6_RowPerInputUuid ==
    (Ran("Unifying") /\ statuses_df # <<>>) =>
        /\ FlatRowsDistinct
        /\ FlatUuids = {statuses_df[i].message_uuid : i \in 1..Len(statuses_df)}
        /\ FlatCountsNatural

\* What the code builds instead: a row for each non-null message_uuid that has
\* an event of one of the five known kinds.
AggregateRowPerRecognizedUuid ==
    (Ran("Unifying") /\ statuses_df # <<>>) =>
        /\ FlatRowsDistinct
        /\ FlatUuids =
            {statuses_df[i].message_uuid :
                i \in RowsWhere(statuses_df,
                        LAMBDA r : r.status \in Kinds /\ r.message_uuid # NA)}
        /\ FlatCountsNatural

\* One message_uuid has only events of an unrecognized kind, another has a
\* known one.
UnrecognizedOnlyUuidHasNoRow ==
    /\ Ran("Unifying")
    /\ Len(statuses_df) = 2
    /\ statuses_df[1].message_uuid = "a"
    /\ statuses_df[1].status = "unknown_kind"
    /\ statuses_df[2].message_uuid = "b"
    /\ statuses_df[2].status = "read"
    /\ FlatUuids = {"b"}

\* The sum of the five counts over the rows of the aggregate.
FlatCountTotal ==
    SumSeq([n \in 1..Len(status_flat.rows) |->
               SumSeq([m \in 1..Len(pivot_statuses) |->
                          status_flat.rows[n].counts[pivot_statuses[m]]])])

\* C7: an event of an unrecognized kind enters no count and no metadata;
\* invalid_statuses is the number of such rows (0 for an empty table), and the
\* counts of the aggregate plus invalid_statuses make up total_statuses.
C7_UnrecognizedOnlyReported ==
    Ran("QualityChecking") =>
        /\ quality_report.invalid_statuses =
              CountWhere(statuses_df, LAMBDA r : r.status \notin Kinds)
        /\ (statuses_df = <<>> => quality_report.invalid_statuses = 0)
        /\ FlatCountTotal + quality_report.invalid_statuses = quality_report.total_statuses
        /\ quality_report.total_statuses = Len(statuses_df)
        /\ \A n \in 1..Len(status_flat.rows) : \A k \in Kinds :
            LET row == status_flat.rows[n]
                events == EventsOf(row.message_uuid, k)
            IN  /\ row.counts[k] = Cardinality(events)
                /\ row.latest[k].status_id \in {NaN} \cup {statuses_df[i].id : i \in events}
                /\ row.latest[k].status_uuid \in {NA} \cup {statuses_df[i].uuid : i \in events}

\* A message with one known and one unrecognized event has been reported on.
C7_Witness ==
    /\ pc = "Done"
    /\ Len(statuses_df) = 2
    /\ statuses_df[1].message_uuid = "a"
    /\ statuses_df[1].status = "unknown_kind"
    /\ statuses_df[2].message_uuid = "a"
    /\ statuses_df[2].status = "read"
    /\ quality_report.invalid_statuses = 1
    /\ FlatCountTotal = 1

\* The message rows detect_duplicates read that have a record in its result.
Emitted(i) == \E n \in 1..Len(dup_rows) : dup_rows[n] = i

\* Non-blank content that another message row has too.
SharesContent(i) ==
    /\ messages_df[i].content # NA
    /\ Strip(messages_df[i].content) # ""
    /\ \E j \in 1..Len(messages_df) :
        j # i /\ messages_df[j].content = messages_df[i].content

Constructible(i) ==
    /\ messages_df[i].direction # NA
    /\ Strip(messages_df[i].direction) \in DIRECTIONS

C9_MissingCountsInputRows ==
    pc = "Done" =>
        results.quality_report.missing_required_fields =
            CountWhere(in_messages,
                LAMBDA r : r.id = NaN \/ r.uuid = NA \/ r.inserted_at = NaT)

StageOrder == <<"Cleaning", "Unifying", "DuplicateDetection", "QualityChecking">>

\* C10: transform_all runs Cleaning, Unifying, DuplicateDetection and
\* QualityChecking once each in that order before it is Done, and its three
\* results are those of the cleaned tables.
C10_StagesInOrder ==
    /\ Len(stages) <= Len(StageOrder)
    /\ stages = SubSeq(StageOrder, 1, Len(stages))
    /\ (Len(stages) < Len(StageOrder) /\ raised_in = "none") =>
            pc = StageOrder[Len(stages) + 1]
    /\ Len(stages) = Len(StageOrder) => pc \in {"Assembling", "Done", "Returned"}
    /\ pc = "Done" =>
        /\ messages_df = CleanMessages(in_messages, msg_columns)
        /\ statuses_df = CleanStatuses(in_statuses, stat_columns)
        /\ Len(results.unified_messages.rows) =
              Len(CleanMessages(in_messages, msg_columns))
        /\ \A i \in 1..Len(results.unified_messages.rows) :
            results.unified_messages.rows[i].message_id =
                CleanMessages(in_messages, msg_columns)[i].id
        /\ results.duplicates =
              DetectDuplicatesOf(CleanMessages(in_messages, msg_columns))
        /\ results.quality_report.total_messages =
              Len(CleanMessages(in_messages, msg_columns))
        /\ results.quality_report.total_statuses =
              Len(CleanStatuses(in_statuses, stat_columns))

\* A finished run whose cleaning removed a message row.
C10_Witness ==
    /\ pc = "Done"
    /\ Len(in_messages) = 2
    /\ Len(messages_df) = 1
    /\ Len(results.unified_messages.rows) = 1

\* The position of a stage in the order transform_all runs the stages.
StageIndex(s) == CHOOSE n \in 1..Len(StageOrder) : StageOrder[n] = s

\* C11: when a stage of transform_all raises, the run ends there: no later
\* stage runs, no results are returned, and run_etl_pipeline raises again
\* without uploading or saving anything.
C11_RaiseAbortsRun ==
    raised_in # "none" =>
        /\ pc \in {"Raised", "Failed"}
        /\ stages = SubSeq(StageOrder, 1, StageIndex(raised_in) - 1)
        /\ results = None
        /\ saved_locally = 0
        /\ uploaded = FALSE
        /\ (StageIndex(raised_in) <= 2) => (unified = None /\ status_flat = None)
        /\ (StageIndex(raised_in) <= 3) => duplicates = None
        /\ quality_report = None

\* detect_duplicates raised after the unified table was built, and
\* run_etl_pipeline has raised again.
C11_Witness ==
    /\ pc = "Failed"
    /\ raised_in = "DuplicateDetection"
    /\ unified # None
    /\ Len(unified.rows) = 2

\* transform_unified_view has been called in this run.
UnifiedViewCalled == Ran("Cleaning") /\ pc # "Unifying"

\* C12: on a non-empty status table that lacks status, timestamp or
\* message_uuid, transform_unified_view does not raise; it builds the empty
\* aggregate of 41 columns and a unified row per message with counts 0 and
\* null metadata.
C12_MissingStatusColumnsTolerated ==
    (/\ UnifiedViewCalled
     /\ statuses_df # <<>>
     /\ ~({"status", "timestamp", "message_uuid"} \subseteq stat_columns)) =>
        /\ raised_in # "Unifying"
        /\ status_flat = [columns |-> EmptyStatusWideColumns, rows |-> <<>>]
        /\ Len(unified.rows) = Len(messages_df)
        /\ \A i \in 1..Len(unified.rows) : \A k \in Kinds :
            /\ unified.rows[i].counts[k] = 0
            /\ unified.rows[i].latest[k] = NullLatest

\* The rows of one content that are members of a duplicate group, in row order.
MembersOf(c) ==
    SelectSeq([i \in 1..Len(messages_df) |-> i],
        LAMBDA i : messages_df[i].content = c /\ SharesContent(i))

\* The members of all duplicate groups in the order detect_duplicates visits
\* them: the contents in sorted order, the rows of a content in row order.
MembersInOrder ==
    MembersOf(ContentOrder[1]) \o MembersOf(ContentOrder[2]) \o MembersOf(ContentOrder[3])

\* detect_duplicates has been called in this run.
DetectDuplicatesCalled == Ran("Unifying") /\ pc # "DuplicateDetection"

\* C13: when a member of a duplicate group has a record that cannot be built,
\* detect_duplicates still returns, and what it returns is the records of all
\* the other members of all groups, in the order they would have had.
C13_UnbuildableMemberDropped ==
    (/\ DetectDuplicatesCalled
     /\ \E i \in 1..Len(messages_df) : SharesContent(i) /\ ~Constructible(i)) =>
        /\ Ran("DuplicateDetection")
        /\ dup_rows = SelectSeq(MembersInOrder, Constructible)
        /\ Len(duplicates) = Len(dup_rows)
        /\ \A n \in 1..Len(duplicates) : duplicates[n].id = messages_df[dup_rows[n]].id

\* Two groups of two; one member of the first group cannot be built.
C13_Witness ==
    /\ Ran("DuplicateDetection")
    /\ Len(messages_df) = 4
    /\ messages_df[1].content = "hi " /\ messages_df[1].direction = "inbound"
    /\ messages_df[2].content = "hi" /\ messages_df[2].direction = "sideways"
    /\ messages_df[3].content = "hi" /\ messages_df[3].direction = "inbound"
    /\ messages_df[4].content = "hi " /\ messages_df[4].direction = "inbound"
    /\ dup_rows = <<3, 1, 4>>

\* C14 as stated: every emitted record has the id, uuid, content, inserted_at
\* and direction of the row it was built from, none of them replaced by a
\* default or changed.
C14_RecordCarriesRowUnchanged ==
    Ran("DuplicateDetection") =>
        \A n \in 1..Len(duplicates) :
            LET row == messages_df[dup_rows[n]]
            IN  /\ duplicates[n].id = row.id
                /\ duplicates[n].uuid = row.uuid
                /\ duplicates[n].content = row.content
                /\ duplicates[n].inserted_at = Str(row.inserted_at)
                /\ duplicates[n].direction = row.direction

\* C14 amended: every emitted record has the fields of the row it was built
\* from after normalization: the texts trimmed, inserted_at as text, and a
\* null id, uuid or inserted_at replaced by 0, "unknown-uuid" or the current
\* time.
C14_RecordCarriesRowNormalized ==
    Ran("DuplicateDetection") =>
        \A n \in 1..Len(duplicates) :
            LET row == messages_df[dup_rows[n]]
            IN  /\ duplicates[n].id = (IF row.id = NaN THEN 0 ELSE row.id)
                /\ duplicates[n].uuid =
                      (IF row.uuid = NA THEN "unknown-uuid" ELSE Strip(row.uuid))
                /\ duplicates[n].content = Strip(row.content)
                /\ duplicates[n].inserted_at =
                      (IF row.inserted_at = NaT THEN Str(Now) ELSE Str(row.inserted_at))
                /\ duplicates[n].direction = Strip(row.direction)

\* A record built from a row whose content ends in a blank.
C14_Witness ==
    /\ Ran("DuplicateDetection")
    /\ Len(duplicates) = 2
    /\ messages_df[dup_rows[1]].content = "hi "
    /\ duplicates[1].content = "hi"

\* C15: the report data_quality_checks returns has duplicates_found 0; the
\* report transform_all returns has the length of the returned duplicates
\* list there; the back-fill leaves the checks and the quality score alone.
C15_BackFillOnly ==
    /\ []((pc = "Assembling" => quality_report.duplicates_found = 0)
          /\ (pc = "Done" =>
                results.quality_report.duplicates_found = Len(results.duplicates)))
    /\ [][pc = "Assembling" =>
            /\ quality_report'.checks = quality_report.checks
            /\ get_summary(quality_report').data_quality_score =
                  get_summary(quality_report).data_quality_score]_vars

\* A finished run that found two duplicates.
C15_Witness ==
    /\ pc = "Done"
    /\ Len(results.duplicates) = 2
    /\ results.quality_report.duplicates_found = 2

\* C16: a report of data_quality_checks has the four checks total_messages,
\* total_statuses, missing_required_fields and invalid_statuses; the first two
\* have severity info, the last two error exactly when their value is > 0 and
\* info otherwise; each value is the report field of the check's name.
C16_FourChecks ==
    Ran("QualityChecking") =>
        LET checks == quality_report.checks
        IN  /\ Len(checks) = 4
            /\ {checks[n].check_name : n \in 1..Len(checks)} =
                  {"total_messages", "total_statuses", "missing_required_fields",
                   "invalid_statuses"}
            /\ \A n \in 1..Len(checks) :
                /\ checks[n].value = quality_report[checks[n].check_name]
                /\ checks[n].check_name \in {"total_messages", "total_statuses"} =>
                      checks[n].severity = "info"
                /\ checks[n].check_name \in {"missing_required_fields", "invalid_statuses"} =>
                      /\ (checks[n].value > 0 => checks[n].severity = "error")
                      /\ (checks[n].value <= 0 => checks[n].severity = "info")

\* A report with one message that lacks a required field and no invalid status.
C16_Witness ==
    /\ Ran("QualityChecking")
    /\ quality_report.total_messages = 2
    /\ quality_report.missing_required_fields = 1
    /\ quality_report.invalid_statuses = 0
    /\ quality_report.checks[3].severity = "error"
    /\ quality_report.checks[4].severity = "info"

\* The number of checks of a report that have severity sev.
ChecksOfSeverity(report, sev) ==
    Cardinality({n \in 1..Len(report.checks) : report.checks[n].severity = sev})

Max(a, b) == IF a >= b THEN a ELSE b

\* max(0, 100 - 20*errors - 5*warnings)
ExpectedScore(report) ==
    Max(0, 100 - 20 * ChecksOfSeverity(report, "error")
               - 5 * ChecksOfSeverity(report, "warning"))

\* C17: the score get_summary returns is max(0, 100 - 20*errors - 5*warnings),
\* it lies in 0..100, and it does not increase when a check of severity error
\* or warning is added to the report.
C17_ScoreFormula ==
    /\ [][summary' # summary =>
            /\ summary'.data_quality_score = ExpectedScore(quality_report)
            /\ summary'.data_quality_score \in 0..100]_vars
    /\ [][(/\ Len(quality_report'.checks) = Len(quality_report.checks) + 1
           /\ quality_report'.checks[Len(quality_report'.checks)].severity
                  \in {"error", "warning"}) =>
            get_summary(quality_report').data_quality_score
                <= get_summary(quality_report).data_quality_score]_vars

\* A summary of six checks of severity error: the score is clamped at 0.
C17_Witness ==
    /\ summary # None
    /\ summary.errors_found = 6
    /\ summary.data_quality_score = 0

\* C18: whatever columns the message table has, the unified table starts with
\* the 18 canonical message columns in their order, the source columns
\* renamed and the missing ones null, and has the message rows one for one
\* in their order.
C18_CanonicalMessagePart ==
    Ran("Unifying") =>
        /\ Len(unified.columns) >= 18
        /\ SubSeq(unified.columns, 1, 18) = desired_message_columns
        /\ Len(unified.rows) = Len(messages_df)
        /\ \A i \in 1..Len(unified.rows) :
            /\ unified.rows[i].message_id =
                  (IF "id" \in msg_columns THEN messages_df[i].id ELSE NaN)
            /\ unified.rows[i].message_uuid =
                  (IF "uuid" \in msg_columns THEN messages_df[i].uuid ELSE NA)
            /\ unified.rows[i].content =
                  (IF "content" \in msg_columns THEN messages_df[i].content ELSE NA)
            /\ unified.rows[i].direction =
                  (IF "direction" \in msg_columns THEN messages_df[i].direction ELSE NA)
            /\ unified.rows[i].message_inserted_at =
                  (IF "inserted_at" \in msg_columns
                   THEN messages_df[i].inserted_at ELSE NaT)

\* Two messages of a table that has only the columns uuid and direction.
C18_Witness ==
    /\ Ran("Unifying")
    /\ msg_columns = {"uuid", "direction"}
    /\ Len(messages_df) = 2
    /\ messages_df[1].uuid = "b"
    /\ Len(unified.rows) = 2
    /\ unified.rows[1].message_uuid = "b"
    /\ unified.rows[1].message_id = NaN

\* The events of kind k of message u that have its greatest timestamp.
TopEvents(u, k) ==
    {i \in EventsOf(u, k) :
        /\ IsTime(statuses_df[i].timestamp)
        /\ \A j \in EventsOf(u, k) :
            statuses_df[j].timestamp <= statuses_df[i].timestamp}

\* C19: when several events of a message and kind share its greatest
\* timestamp, the latest-event metadata are those of the last of them in the
\* row order of the input.
C19_TieKeepsLastInput ==
    Ran("Unifying") =>
        \A n \in 1..Len(status_flat.rows) : \A k \in Kinds :
            LET row == status_flat.rows[n]
                top == TopEvents(row.message_uuid, k)
            IN  Cardinality(top) >= 2 =>
                    LET last == CHOOSE i \in top : \A j \in top : j <= i
                    IN  row.latest[k] =
                            [timestamp   |-> statuses_df[last].timestamp,
                             status_uuid |-> statuses_df[last].uuid,
                             status_id   |-> statuses_df[last].id]

Perms(n) == {p \in [1..n -> 1..n] : \A x, y \in 1..n : x # y => p[x] # p[y]}

Permuted(t, p) == [i \in 1..Len(t) |-> t[p[i]]]

\* The aggregates transform_all can build from the status sheet t.
AggregatesOf(t) ==
    LET cleaned == CleanStatuses(t, stat_columns)
    IN  {StatusWide(cleaned, ord) : ord \in SortOrders(cleaned)}

\* The events of one message and kind have pairwise distinct timestamps.
DistinctTimestamps(t) ==
    \A i, j \in 1..Len(t) :
        (i # j /\ t[i].message_uuid = t[j].message_uuid /\ t[i].status = t[j].status)
            => t[i].timestamp # t[j].timestamp

\* transform_unified_view has just returned the aggregate status_flat.
AggregateBuilt == Ran("Unifying") /\ pc = "DuplicateDetection"

\* C20 as stated: when the events of each message and kind have pairwise
\* distinct timestamps, every permutation of the status rows gives the same
\* aggregate.
C20_PermutationInvariant ==
    (AggregateBuilt /\ DistinctTimestamps(in_statuses)) =>
        \A p \in Perms(Len(in_statuses)) :
            AggregatesOf(Permuted(in_statuses, p)) = {status_flat}

\* C20 amended: when the events of each message and kind have pairwise
\* distinct timestamps after parsing, at most one of them unparseable, every
\* permutation of the status rows gives the same aggregate.
C20_PermutationInvariantParsed ==
    (AggregateBuilt /\ DistinctTimestamps(statuses_df)) =>
        \A p \in Perms(Len(in_statuses)) :
            AggregatesOf(Permuted(in_statuses, p)) = {status_flat}

\* Two sent events of one message, the later one first in the sheet.
C20_Witness ==
    /\ Ran("Unifying")
    /\ Len(statuses_df) = 2
    /\ statuses_df[1].message_uuid = "a" /\ statuses_df[1].status = "sent"
    /\ statuses_df[2].message_uuid = "a" /\ statuses_df[2].status = "sent"
    /\ statuses_df[1].timestamp = 2
    /\ statuses_df[2].timestamp = 1
    /\ Len(status_flat.rows) = 1
    /\ status_flat.rows[1].latest["sent"].status_id = 1

\* C21: on the same status table the in-memory aggregate and the table of the
\* SQL query have the same set of message_uuid rows, the same five counts in
\* each row and the same set of columns.
C21_SqlSameAggregate ==
    AggregateBuilt =>
        LET sql == SqlMessageStatusFlat(statuses_df)
        IN  /\ FlatUuids = {sql.rows[n].message_uuid : n \in 1..Len(sql.rows)}
            /\ \A n \in 1..Len(status_flat.rows) : \A m \in 1..Len(sql.rows) :
                   status_flat.rows[n].message_uuid = sql.rows[m].message_uuid =>
                       status_flat.rows[n].counts = sql.rows[m].counts
            /\ Range(status_flat.columns) = Range(sql.columns)

\* The part of C21 the two paths do share: a message_uuid that has a row in
\* both tables has the same five counts in both.
SqlCountsAgreeOnSharedRows ==
    AggregateBuilt =>
        LET sql == SqlMessageStatusFlat(statuses_df)
        IN  \A n \in 1..Len(status_flat.rows) : \A m \in 1..Len(sql.rows) :
                status_flat.rows[n].message_uuid = sql.rows[m].message_uuid =>
                    status_flat.rows[n].counts = sql.rows[m].counts

\* One sent event: the SQL table has 41 columns, the in-memory one fewer.
SqlColumnsDiffer ==
    /\ AggregateBuilt
    /\ Len(statuses_df) = 1
    /\ statuses_df[1].status = "sent"
    /\ Len(SqlMessageStatusFlat(statuses_df).columns) = 41
    /\ Len(status_flat.columns) < 41

\* A message_uuid with only an event of an unrecognized kind has a row in the
\* SQL table and none in the in-memory aggregate.
SqlRowsDiffer ==
    /\ AggregateBuilt
    /\ Len(statuses_df) = 1
    /\ statuses_df[1].status = "unknown_kind"
    /\ statuses_df[1].message_uuid = "a"
    /\ Len(SqlMessageStatusFlat(statuses_df).rows) = 1
    /\ status_flat.rows = <<>>

\* C22: when run_etl_pipeline returns after a successful extraction and
\* transformation, the results are persisted: either the upload is enabled
\* and every table load and the SQL transforms succeeded, or the results were
\* saved locally; a BigQuery failure of any kind, a failed load of a single
\* table included, leads to the local save, which runs at most once.
C22_ReturnedMeansPersisted ==
    pc = "Returned" =>
        /\ \/ bigquery = "completed" /\ upload_success_count = Len(TableNames)
           \/ saved_locally >= 1
        /\ (uploaded /\ upload_success_count < Len(TableNames)) => saved_locally = 1
        /\ bigquery \in {"unavailable", "dataset_failed", "transform_failed"} =>
               saved_locally = 1
        /\ saved_locally <= 1

\* What holds of the code: the local save runs exactly when the upload is
\* disabled or the upload branch raised, and at most once; a load that
\* returned False is no such failure.
SavedIffDisabledOrRaised ==
    pc = "Returned" =>
        /\ saved_locally = IF bigquery = "completed" THEN 0 ELSE 1
        /\ bigquery \in PersistOutcomes

\* One table failed to load, the SQL transforms completed, the function
\* returned and nothing was saved locally.
FailedLoadNotSaved ==
    /\ pc = "Returned"
    /\ bigquery = "completed"
    /\ upload_success_count = Len(TableNames) - 1
    /\ saved_locally = 0

\* The tab that was read has all the columns of its sheet.
ReadTabsWellFormed ==
    /\ "messages" \notin read_failed => msg_columns = AllMessageColumns
    /\ "statuses" \notin read_failed => stat_columns = AllStatusColumns

\* C23: a tab that cannot be read raises nothing out of the extractor:
\* extract_all returns an empty table (no rows, no columns) in its place, and
\* transform_all on these tables, the other tab being a well-formed sheet,
\* raises in no stage and returns a unified table, a list of duplicates and
\* a quality report.
C23_ReadFailureTolerated ==
    read_failed # {} =>
        /\ raised_in # "Extracting"
        /\ "messages" \in read_failed => (in_messages = <<>> /\ msg_columns = {})
        /\ "statuses" \in read_failed => (in_statuses = <<>> /\ stat_columns = {})
        /\ ReadTabsWellFormed =>
            /\ raised_in = "none"
            /\ pc \notin {"Raised", "Failed"}
            /\ pc \in {"Done", "Returned"} =>
                /\ stages = TransformAllStages
                /\ results.unified_messages = unified
                /\ Len(unified.rows) = Len(messages_df)
                /\ results.duplicates = duplicates
                /\ "messages" \in read_failed => duplicates = <<>>
                /\ results.quality_report.total_messages = Len(messages_df)
                /\ results.quality_report.total_statuses = Len(statuses_df)
                /\ Len(results.quality_report.checks) = 4

\* The messages tab could not be read, the statuses tab has two events, and
\* transform_all has returned its results.
C23_Witness ==
    /\ pc = "Done"
    /\ read_failed = {"messages"}
    /\ in_messages = <<>>
    /\ Len(in_statuses) = 2
    /\ results.unified_messages.rows = <<>>

\* Neither tab could be read and transform_all has returned its results.
BothTabsFailed ==
    /\ pc = "Done"
    /\ read_failed = Tabs
    /\ results.quality_report.total_messages = 0

\* C24: no operation of DataTransformer changes the tables the caller passed
\* in: no step of the run changes the extracted tables or their columns, and
\* the tables prepared for upload as messages_raw and statuses_raw are the
\* extracted tables, with the rows clean_data removed and the values it
\* converted left as they were read.
C24_CallersTablesUntouched ==
    /\ [][/\ in_messages' = in_messages
          /\ in_statuses' = in_statuses
          /\ msg_columns' = msg_columns
          /\ stat_columns' = stat_columns]_vars
    /\ [](tables_to_upload # None =>
            /\ tables_to_upload.messages_raw = in_messages
            /\ tables_to_upload.statuses_raw = in_statuses
            /\ Len(tables_to_upload.messages_raw) >= Len(messages_df)
            /\ Len(tables_to_upload.statuses_raw) >= Len(statuses_df))

\* clean_data removed a message row and converted an unparseable inserted_at
\* of another, and the table uploaded as messages_raw has both rows as read.
C24_Witness ==
    /\ pc = "Returned"
    /\ uploaded
    /\ Len(in_messages) = 2
    /\ in_messages[1].id = NaN
    /\ in_messages[2].inserted_at = Garbage
    /\ Len(messages_df) = 1
    /\ messages_df[1].inserted_at = NaT
    /\ tables_to_upload.messages_raw = in_messages

\* clean_data removed a status row without message_uuid, and the table
\* uploaded as statuses_raw still has it.
RawStatusesKeepDroppedRow ==
    /\ pc = "Returned"
    /\ uploaded
    /\ Len(in_statuses) = 2
    /\ in_statuses[1].message_uuid = NA
    /\ Len(statuses_df) = 1
    /\ tables_to_upload.statuses_raw = in_statuses

\* C25: in the results transform_all returns, the report's total_messages is
\* the number of rows of unified_messages, and its total_statuses is
\* invalid_statuses plus the sum of the five count columns over the rows of
\* status_flat; the three describe the same cleaned tables.
C25_ReportMatchesTables ==
    pc \in {"Done", "Returned"} =>
        LET report == results.quality_report
        IN  /\ report.total_messages = Len(results.unified_messages.rows)
            /\ report.total_statuses = report.invalid_statuses + FlatCountTotal
            /\ report.total_messages = Len(messages_df)
            /\ report.total_statuses = Len(statuses_df)

\* Of two status rows clean_data dropped the one without message_uuid; the
\* other, a sent event, is the one event the report and the aggregate count,
\* next to two messages.
C25_Witness ==
    /\ pc = "Done"
    /\ Len(in_statuses) = 2
    /\ in_statuses[1].message_uuid = NA
    /\ in_statuses[2].status = "sent"
    /\ results.quality_report.total_statuses = 1
    /\ results.quality_report.invalid_statuses = 0
    /\ FlatCountTotal = 1
    /\ results.quality_report.total_messages = 2
    /\ Len(results.unified_messages.rows) = 2

====
